---- MODULE Spec2Model ----
(***************************************************************************)
(* Model of the LIDAR fetch utility: scripts/fetch_lidar_data.py           *)
(* (FetchLidarData) and scripts/get_metadata.py (GetMetadata).             *)
(*                                                                         *)
(* Text is a sequence of string atoms: region names are sequences of       *)
(* one-character atoms (so that slicing is modelled character by           *)
(* character), fixed literals of the code are single atoms.                *)
(***************************************************************************)
EXTENDS Integers, Sequences, FiniteSets, TLC

VARIABLES
    \* ---- FetchLidarData -------------------------------------------------
    regions_txt,    \* lines of ../data/usgs_3dep_regions_name.txt
    metadata_csv,   \* rows of the persisted catalog usgs_3dep_metadata
    pc,             \* position of the __main__ script of fetch_lidar_data.py
    request,        \* arguments of the FetchLidarData(...) call
    obj,            \* attributes of the FetchLidarData object (its __dict__)
    log,            \* messages written through self._logger
    calls,          \* methods of the object invoked so far, in order
    pdal_runs,      \* pipeline descriptions handed to pipeline.execute()
    raised,         \* exception that left the last call into the object ("" if none)
    \* ---- GetMetadata.save_metadata --------------------------------------
    filenames,      \* lines returned by file_handler.read_txt(self.filename)
    meta_pc,        \* position of the __main__ script of get_metadata.py
    http_requests,  \* URLs requested through self._http, in order
    http_status,    \* status of each response, in order
    saved_csv,      \* frame handed to save_metadata_to_csv
    meta_log,       \* messages written through self.logger
    \* ---- GetMetadata.get_name_and_year ----------------------------------
    location,       \* raw region name given to get_name_and_year
    year_pc,        \* whether get_name_and_year has been applied
    name_and_year   \* the tuple it returned

fetch_vars ==
    <<regions_txt, metadata_csv, pc, request, obj, log, calls, pdal_runs, raised>>
meta_vars == <<filenames, meta_pc, http_requests, http_status, saved_csv, meta_log>>
year_vars == <<location, year_pc, name_and_year>>
vars == <<fetch_vars, meta_vars, year_vars>>

-----------------------------------------------------------------------------
(* Bounds of the model *)

\* polygon vertices have coordinates in 0..MaxCoord
MaxCoord == 2
\* the persisted catalog has at most MaxRows rows
MaxRows == 2
\* the region-name list crawled by save_metadata has at most MaxFiles lines
MaxFiles == 3
\* raw names given to get_name_and_year have at most MaxNameLen characters
MaxNameLen == 6

-----------------------------------------------------------------------------
(* Text *)

\* Python s[:-k]
DropLast(s, k) == IF Len(s) <= k THEN <<>> ELSE SubSeq(s, 1, Len(s) - k)

\* Python s[-k:]
TakeLast(s, k) == IF Len(s) <= k THEN s ELSE SubSeq(s, Len(s) - k + 1, Len(s))

IsDigit(c) == c \in {"0", "1", "2", "3", "4", "5", "6", "7", "8", "9"}

\* a match of the pattern 20[0-9][0-9]+ starts at position i of s
MatchesAt(s, i) ==
    /\ i + 3 <= Len(s)
    /\ s[i] = "2"
    /\ s[i + 1] = "0"
    /\ IsDigit(s[i + 2])
    /\ IsDigit(s[i + 3])

\* re.search('20[0-9][0-9]+', s) finds a match
re_search(s) == \E i \in 1..Len(s) : MatchesAt(s, i)

-----------------------------------------------------------------------------
(* GetMetadata.get_name_and_year *)

WA_King_County ==
    <<"W", "A", "_", "K", "i", "n", "g", "_", "C", "o", "u", "n", "t", "y">>

CO_Denver_2017 ==
    <<"C", "O", "_", "D", "e", "n", "v", "e", "r", "_", "2", "0", "1", "7">>

\* the slice drops four characters instead of five
get_name_and_year_short(loc) ==
    IF re_search(loc)
    THEN [region |-> DropLast(loc, 4), year |-> TakeLast(loc, 4)]
    ELSE [region |-> DropLast(loc, 4), year |-> <<>>]

get_name_and_year(loc) ==
    IF re_search(loc)
    THEN [region |-> DropLast(loc, 5), year |-> TakeLast(loc, 4)]
    ELSE [region |-> DropLast(loc, 5), year |-> <<>>]

-----------------------------------------------------------------------------
(* GetMetadata.save_metadata *)

DEFAULT_URL == <<"https://s3-us-west-2.amazonaws.com/usgs-lidar-public/">>

\* region folder names as they may stand in the region-name list
CrawlNames ==
    { <<"I", "A", "_", "2", "0", "1", "7", "/">>,
      <<"W", "A", "_", "K", "i", "n", "g", "/">>,
      <<"C", "O", "_", "2", "0", "1", "2">> }

\* resource descriptors (ept.json) the archive may answer with:
\* bounds is [xmin, ymin, zmin, xmax, ymax, zmax]
Descriptors ==
    { [bounds |-> <<0, 1, 7, 4, 5, 9>>, points |-> 10],
      [bounds |-> <<2, 0, 7, 3, 6, 9>>, points |-> 20] }

NoData == [bounds |-> <<>>, points |-> 0]

\* r.status values: 200 and one non-success status
Responses ==
    { [status |-> 200, data |-> d] : d \in Descriptors }
        \cup { [status |-> 404, data |-> NoData] }

\* one pass of the body of the for loop, lines 44-59
LoopBody(st, file, r) ==
    LET url == DEFAULT_URL \o file \o <<"ept.json">>
        ny == get_name_and_year(file)
        row == [region |-> ny.region,
                year |-> ny.year,
                xmin |-> r.data.bounds[1],
                xmax |-> r.data.bounds[4],
                ymin |-> r.data.bounds[2],
                ymax |-> r.data.bounds[5],
                points |-> r.data.points]
        df1 == IF r.status = 200 THEN Append(st.df, row) ELSE st.df
        progress == (st.index % 100 = 0)
    IN  [df |-> df1,
         requests |-> Append(st.requests, url),
         index |-> IF progress THEN st.index + 1 ELSE st.index,
         out |-> IF progress
                 THEN Append(st.out, [stream |-> "stdout",
                                      msg |-> "Reading in progress",
                                      at |-> <<>>])
                 ELSE st.out]

RECURSIVE ForLoop(_, _, _, _)
ForLoop(st, files, resp, i) ==
    IF i > Len(files) THEN st
    ELSE ForLoop(LoopBody(st, files[i], resp[i]), files, resp, i + 1)

\* the for loop never breaks, so its else clause runs once after it, with
\* `file` bound to the last name (unbound, a NameError, when the list is empty)
save_metadata(files, resp) ==
    LET st0 == [df |-> <<>>, requests |-> <<>>, index |-> 0, out |-> <<>>]
        st == ForLoop(st0, files, resp, 1)
    IN  IF Len(files) = 0
        THEN [raised |-> "NameError", requests |-> st.requests, out |-> st.out,
              csv |-> [saved |-> FALSE, rows |-> <<>>]]
        ELSE [raised |-> "",
              requests |-> st.requests,
              out |-> Append(st.out, [stream |-> "logger",
                                      msg |-> "Connection problem at",
                                      at |-> files[Len(files)]]),
              csv |-> [saved |-> TRUE, rows |-> st.df]]

-----------------------------------------------------------------------------
(* Python values held by attributes of the FetchLidarData object *)

PyNone == [t |-> "None"]
PyStr(text) == [t |-> "str", v |-> text]
\* a pandas Series: its elements in order, each with its index label
PySeries(elems) == [t |-> "Series", v |-> elems]

\* o with attribute k set to v (self.k = v)
SetAttr(o, k, v) == [x \in (DOMAIN o) \cup {k} |-> IF x = k THEN v ELSE o[x]]

HasAttr(o, k) == k \in DOMAIN o

Lit(s) == [k |-> "lit", s |-> s]
Num(n) == [k |-> "num", n |-> n]

RECURSIVE SeriesRepr(_, _)
SeriesRepr(elems, i) ==
    IF i > Len(elems) THEN <<"Name: region, dtype: object">>
    ELSE <<ToString(elems[i].idx), "    ">> \o elems[i].val \o <<"\n">>
             \o SeriesRepr(elems, i + 1)

\* str(v) as an f-string field {v} produces it
Format(v) ==
    IF v.t = "str" THEN v.v
    ELSE IF v.t = "None" THEN <<"None">>
    ELSE IF Len(v.v) = 0 THEN <<"Series([], Name: region, dtype: object)">>
    ELSE SeriesRepr(v.v, 1)

\* str of a tuple of two lists, ([a, b], [c, d])
FormatTupleOfLists(b) ==
    << Lit("("), Lit("["), Num(b[1][1]), Lit(", "), Num(b[1][2]), Lit("]"),
       Lit(", "),
       Lit("["), Num(b[2][1]), Lit(", "), Num(b[2][2]), Lit("]"), Lit(")") >>

-----------------------------------------------------------------------------
(* FetchLidarData.get_polygon_edges *)

\* the reference CRS of the archive and of the catalog
EPSG_ARCHIVE == 3857

\* grid.geometry.to_crs: one coordinate taken from CRS `from` to CRS `to`;
\* the two CRS of the model are related by c3857 = 2 * c4326 + 1
to_crs(c, from, to) ==
    IF from = to THEN c
    ELSE IF to = EPSG_ARCHIVE THEN 2 * c + 1
    ELSE (c - 1) \div 2

SeqMin(s) == CHOOSE v \in {s[i] : i \in 1..Len(s)} : \A i \in 1..Len(s) : v <= s[i]
SeqMax(s) == CHOOSE v \in {s[i] : i \in 1..Len(s)} : \A i \in 1..Len(s) : v >= s[i]

\* shapely's geometry.bounds: (minx, miny, maxx, maxy)
PolygonBounds(ring) ==
    LET xs == [i \in 1..Len(ring) |-> ring[i][1]]
        ys == [i \in 1..Len(ring) |-> ring[i][2]]
    IN  <<SeqMin(xs), SeqMin(ys), SeqMax(xs), SeqMax(ys)>>

\* returns (minx, miny, maxx, maxy) in the archive CRS and sets
\* self.extraction_bounds; a failure inside the try is logged and the method
\* returns None
get_polygon_edges(o, polygon, epsg, fault) ==
    IF fault = "to_crs"
    THEN [ret |-> PyNone,
          obj |-> o,
          log |-> <<"Failed to Extract Polygon Edges and Polygon Cropping Bounds">>]
    ELSE
        LET grid == [i \in 1..Len(polygon) |->
                        << to_crs(polygon[i][1], epsg, EPSG_ARCHIVE),
                           to_crs(polygon[i][2], epsg, EPSG_ARCHIVE) >>]
            b == PolygonBounds(grid)
            minx == b[1]
            miny == b[2]
            maxx == b[3]
            maxy == b[4]
            extraction ==
                << Lit("("), Lit("["), Num(minx), Lit(", "), Num(maxx), Lit("]"),
                   Lit(","),
                   Lit("["), Num(miny), Lit(", "), Num(maxy), Lit("]"), Lit(")") >>
        IN  [ret |-> [t |-> "tuple", v |-> <<minx, miny, maxx, maxy>>],
             obj |-> SetAttr(o, "extraction_bounds", extraction),
             log |-> <<"Successfully Extracted Polygon Edges and Polygon Cropping Bounds">>]

-----------------------------------------------------------------------------
(* FetchLidarData.check_region *)

InList(x, list) == \E i \in 1..Len(list) : list[i] = x

\* returns the name when the list holds it; otherwise logs and falls off the
\* end of the method, which returns None
check_region(region, locations_list) ==
    IF InList(region, locations_list)
    THEN [ret |-> PyStr(region), log |-> <<>>]
    ELSE [ret |-> PyNone, log |-> <<"Region is Not Available">>]

-----------------------------------------------------------------------------
(* FetchLidarData.get_region_from_bounds *)

DEFAULT_LOCATION == <<"https://s3-us-west-2.amazonaws.com/usgs-lidar-public/">>

\* rows that merely overlap the query on the x axis pass the mask
RowSelected_overlap(row, minx, miny, maxx, maxy) ==
    /\ row.xmin <= minx
    /\ row.xmax >= minx
    /\ row.ymin <= miny
    /\ row.ymax >= maxy

\* the row mask of lines 229-232
RowSelected(row, minx, miny, maxx, maxy) ==
    /\ row.xmin <= minx
    /\ row.xmax >= maxx
    /\ row.ymin <= miny
    /\ row.ymax >= maxy

RECURSIVE Loc(_, _, _, _, _, _)
\* metadata.loc[mask]: the selected rows in order, each keeping its index label
Loc(metadata, minx, miny, maxx, maxy, i) ==
    IF i > Len(metadata) THEN <<>>
    ELSE (IF RowSelected(metadata[i], minx, miny, maxx, maxy)
          THEN << [idx |-> i - 1, row |-> metadata[i]] >>
          ELSE <<>>)
         \o Loc(metadata, minx, miny, maxx, maxy, i + 1)

\* returns the pair (Series of access urls, Series of region names)
get_region_from_bounds(metadata, minx, miny, maxx, maxy) ==
    LET filtered_df == Loc(metadata, minx, miny, maxx, maxy, 1)
        n == Len(filtered_df)
    IN  << PySeries([i \in 1..n |->
                        [idx |-> filtered_df[i].idx,
                         val |-> DEFAULT_LOCATION \o filtered_df[i].row.filename
                                     \o <<"/ept.json">>]]),
           PySeries([i \in 1..n |->
                        [idx |-> filtered_df[i].idx,
                         val |-> filtered_df[i].row.region]]) >>

-----------------------------------------------------------------------------
(* FetchLidarData.get_pipeline *)

\* the stages of the dictionary literal, lines 62-111, in the order written
readdata(region, bounds) ==
    [bounds |-> FormatTupleOfLists(bounds),
     filename |-> <<"https://s3-us-west-2.amazonaws.com/usgs-lidar-public/">>
                      \o Format(region) \o <<"/ept.json">>,
     type |-> "readers.ept",
     tag |-> "readdata"]

nonoise ==
    [limits |-> "Classification![7:7]",
     type |-> "filters.range",
     tag |-> "nonoise"]

wipeclasses ==
    [assignment |-> "Classification[:]=0",
     tag |-> "wipeclasses",
     type |-> "filters.assign"]

reprojectUTM(epsg) ==
    [out_srs |-> <<Lit("EPSG:"), Num(epsg)>>,
     tag |-> "reprojectUTM",
     type |-> "filters.reprojection"]

groundify ==
    [tag |-> "groundify",
     type |-> "filters.smrf"]

classify ==
    [limits |-> "Classification[2:2]",
     type |-> "filters.range",
     tag |-> "classify"]

writerslas(region) ==
    [filename |-> Format(region) \o <<".laz">>,
     inputs |-> <<"classify">>,
     tag |-> "writerslas",
     type |-> "writers.las"]

writersgdal(region) ==
    [filename |-> Format(region) \o <<".tif">>,
     gdalopts |-> "tiled=yes,     compress=deflate",
     inputs |-> <<"writerslas">>,
     nodata |-> -9999,
     output_type |-> "idw",
     resolution |-> 1,
     type |-> "writers.gdal",
     window_size |-> 6]

\* the classification is run before the reprojection
PipelineStages_smrf_first(region, bounds, epsg) ==
    << readdata(region, bounds), nonoise, wipeclasses, groundify,
       reprojectUTM(epsg), classify, writerslas(region), writersgdal(region) >>

\* the "pipeline" list
PipelineStages(region, bounds, epsg) ==
    << readdata(region, bounds), nonoise, wipeclasses, reprojectUTM(epsg),
       groundify, classify, writerslas(region), writersgdal(region) >>

\* returns the pdal.Pipeline built from the description; when pdal.Pipeline
\* raises, the failure is logged and the method returns None
get_pipeline(region, bounds, epsg, fault) ==
    IF fault = "pdal"
    THEN [ret |-> PyNone, log |-> <<"Failed to get Pdal Pipeline">>]
    ELSE [ret |-> [t |-> "Pipeline", stages |-> PipelineStages(region, bounds, epsg)],
          log |-> <<"Successfully get Pipeline data">>]

-----------------------------------------------------------------------------
(* FetchLidarData.__init__ *)

Faults == {"none", "to_crs", "read_csv", "open", "pdal"}

\* the except clause of __init__: the exception is logged and the constructor
\* returns normally with the attributes assigned so far
InitCaught(o, lg, cl, exc) ==
    [obj |-> o,
     log |-> Append(lg, "Fail to initialize FetchLidarData Class. " \o exc),
     calls |-> cl,
     raised |-> ""]

\* line 37 onwards, once self.region and self.file_location are assigned
InitBuild(o, lg, cl, fault) ==
    LET gp == get_pipeline(o.region, o.boundary, o.epsg, fault)
    IN  [obj |-> SetAttr(o, "pipeline", gp.ret),
         log |-> lg \o gp.log
                    \o <<"Successfully Instantiated DataFetcher Class Object">>,
         calls |-> Append(cl, "get_pipeline"),
         raised |-> ""]

\* lines 29-33: the two modes of region resolution
InitResolve(o, lg, cl, edges, region, listing, fault) ==
    IF region # <<>>
    THEN
        IF fault = "open"
        THEN InitCaught(o, lg, Append(cl, "check_region"), "FileNotFoundError")
        ELSE
            LET cr == check_region(region, listing)
                o1 == SetAttr(o, "region", cr.ret)
                cl1 == Append(cl, "check_region")
            IN  IF cr.ret.t = "None"
                \* DEFAULT_LOCATION + None raises TypeError
                THEN InitCaught(o1, lg \o cr.log, cl1, "TypeError")
                ELSE InitBuild(SetAttr(o1, "file_location",
                                       PyStr(o1.DEFAULT_LOCATION \o o1.region.v
                                                 \o <<"/ept.json">>)),
                               lg \o cr.log, cl1, fault)
    ELSE
        LET rb == get_region_from_bounds(o._metadata, edges[1], edges[2],
                                         edges[3], edges[4])
            o1 == SetAttr(SetAttr(o, "file_location", rb[1]), "region", rb[2])
        IN  InitBuild(o1, lg, Append(cl, "get_region_from_bounds"), fault)

FetchLidarData(polygon, epsg, region, listing, csv, fault) ==
    LET o0 == [DEFAULT_LOCATION |-> DEFAULT_LOCATION,
               polygon |-> polygon,
               epsg |-> epsg]
        pe == get_polygon_edges(o0, polygon, epsg, fault)
        cl1 == <<"get_polygon_edges">>
    IN  IF pe.ret.t = "None"
        \* unpacking None into four names raises TypeError
        THEN InitCaught(pe.obj, pe.log, cl1, "TypeError")
        ELSE IF fault = "read_csv"
        THEN InitCaught(pe.obj, pe.log, cl1, "FileNotFoundError")
        ELSE
            LET e == pe.ret.v
                o1 == SetAttr(SetAttr(pe.obj, "_metadata", csv),
                              "boundary", <<<<e[1], e[2]>>, <<e[3], e[4]>>>>)
            IN  InitResolve(o1, pe.log, cl1, e, region, listing, fault)

-----------------------------------------------------------------------------
(* FetchLidarData.get_data, with create_cloud_points and get_elevation_geodf *)

\* what pipeline.execute() may leave in pipeline.arrays: a list of arrays of
\* rows, the last three values of a row being x, y and z
ExecArrays ==
    { <<>>,
      << <<>> >>,
      << << <<9, 1, 2, 3>> >> >>,
      << << <<9, 1, 2, 3>>, <<8, 4, 5, 6>> >> >> }

\* sys.exit(1) after the logged failure
GetDataExit(o, lg, msg) ==
    [obj |-> o, log |-> Append(lg, msg), pc |-> "exit1", ran |-> <<>>,
     raised |-> "SystemExit"]

get_elevation_geodf(o) ==
    LET cp == o.cloud_points
        elevation == [elevation |-> [i \in 1..Len(cp) |-> cp[i][3]],
                      geometry |-> [i \in 1..Len(cp) |-> <<cp[i][1], cp[i][2]>>],
                      crs |-> o.epsg]
    IN  SetAttr(o, "elevation_geodf", elevation)

get_data(o, lg, executes, arrays) ==
    IF ~HasAttr(o, "pipeline")
    THEN GetDataExit(o, lg, "Failed to retrieve the data.")
    ELSE IF o.pipeline.t = "None"
    THEN GetDataExit(o, lg, "Failed to retrieve the data.")
    ELSE IF ~executes
    THEN [GetDataExit(o, lg, "Failed to retrieve the data.")
             EXCEPT !.ran = <<o.pipeline.stages>>]
    ELSE
        LET o1 == SetAttr(o, "data_count", IF Len(arrays) = 0 THEN 0
                                            ELSE Len(arrays[1]))
        IN  IF Len(arrays) = 0
            \* pipeline_arrays[0] raises IndexError in create_cloud_points
            THEN [GetDataExit(o1, lg, "Failed to create cloud points")
                     EXCEPT !.ran = <<o.pipeline.stages>>]
            ELSE
                LET rows == arrays[1]
                    cloud_points == [i \in 1..Len(rows) |-> TakeLast(rows[i], 3)]
                    o2 == SetAttr(o1, "cloud_points", cloud_points)
                    o3 == SetAttr(o2, "original_cloud_points", cloud_points)
                    o4 == get_elevation_geodf(o3)
                    o5 == SetAttr(o4, "original_elevation_geodf", o4.elevation_geodf)
                IN  [obj |-> o5,
                     log |-> Append(lg, "Data is retrieved successfully"),
                     pc |-> "fetched",
                     ran |-> <<o.pipeline.stages>>,
                     raised |-> ""]

-----------------------------------------------------------------------------
(* Idle values of the parts a specification does not run *)

FetchIdle ==
    /\ regions_txt = <<>>
    /\ metadata_csv = <<>>
    /\ pc = "idle"
    /\ request = [region |-> <<>>]
    /\ obj = [none |-> TRUE]
    /\ log = <<>>
    /\ calls = <<>>
    /\ pdal_runs = <<>>
    /\ raised = ""

MetaIdle ==
    /\ filenames = <<>>
    /\ meta_pc = "idle"
    /\ http_requests = <<>>
    /\ http_status = <<>>
    /\ saved_csv = [saved |-> FALSE, rows |-> <<>>]
    /\ meta_log = <<>>

YearIdle ==
    /\ location = <<>>
    /\ year_pc = "idle"
    /\ name_and_year = [region |-> <<>>, year |-> <<>>]

-----------------------------------------------------------------------------
(* Specification of fetch_lidar_data.py run as a script: the object is     *)
(* constructed for a request, then get_data is called on it                *)

IA_FullState ==
    <<"I", "A", "_", "F", "u", "l", "l", "S", "t", "a", "t", "e">>

\* the region-name lists of the model
RegionLists == { <<IA_FullState, CO_Denver_2017>>, <<CO_Denver_2017>> }

\* a row of the persisted catalog for an archive folder, with the columns of
\* the frame of save_metadata; region and year are what get_name_and_year
\* derives from the folder name
CatalogRow(folder, xmin, xmax, ymin, ymax) ==
    [filename |-> folder,
     region |-> get_name_and_year(folder).region,
     year |-> get_name_and_year(folder).year,
     xmin |-> xmin, xmax |-> xmax, ymin |-> ymin, ymax |-> ymax,
     points |-> 10]

AK_Juneau_2012 ==
    <<"A", "K", "_", "J", "u", "n", "e", "a", "u", "_", "2", "0", "1", "2">>

\* one row per archive folder
CatalogRows ==
    { CatalogRow(IA_FullState, 0, 7, 0, 7),
      CatalogRow(CO_Denver_2017, 1, 3, 1, 5),
      CatalogRow(WA_King_County, 0, 2, 0, 1),
      CatalogRow(AK_Juneau_2012, 3, 5, 1, 3) }

\* the persisted catalogs of the model: at least one row, no folder twice
Catalogs ==
    { c \in UNION { [1..n -> CatalogRows] : n \in 1..MaxRows } :
        \A i, j \in 1..Len(c) : c[i] = c[j] => i = j }

\* the closed ring of the rectangle with corners (x1, y1) and (x2, y2)
Rectangle(x1, y1, x2, y2) ==
    << <<x1, y1>>, <<x1, y2>>, <<x2, y2>>, <<x2, y1>>, <<x1, y1>> >>

Polygons ==
    { Rectangle(x1, y1, x2, y2) :
        <<x1, y1, x2, y2>> \in
            { q \in (0..MaxCoord) \X (0..MaxCoord) \X (0..MaxCoord) \X (0..MaxCoord) :
                q[1] < q[3] /\ q[2] < q[4] } }

EPSGs == {4326, 3857}

RequestRegions == { <<>>, IA_FullState, CO_Denver_2017 }

FetchInit ==
    /\ regions_txt \in RegionLists
    /\ metadata_csv \in Catalogs
    /\ pc = "start"
    /\ request = [region |-> <<>>]
    /\ obj = [none |-> TRUE]
    /\ log = <<>>
    /\ calls = <<>>
    /\ pdal_runs = <<>>
    /\ raised = ""
    /\ MetaIdle
    /\ YearIdle

\* line 328: df = FetchLidarData(polygon=..., region=..., epsg=...)
Construct ==
    /\ pc = "start"
    /\ \E polygon \in Polygons, epsg \in EPSGs, region \in RequestRegions,
          fault \in Faults :
          LET r == FetchLidarData(polygon, epsg, region, regions_txt,
                                  metadata_csv, fault)
          IN  /\ request' = [polygon |-> polygon, epsg |-> epsg, region |-> region]
              /\ obj' = r.obj
              /\ log' = r.log
              /\ calls' = r.calls
              /\ raised' = r.raised
    /\ pc' = "constructed"
    /\ UNCHANGED <<regions_txt, metadata_csv, pdal_runs, meta_vars, year_vars>>

\* line 330: df.get_data()
GetData ==
    /\ pc = "constructed"
    /\ \E executes \in BOOLEAN, arrays \in ExecArrays :
          LET r == get_data(obj, log, executes, arrays)
          IN  /\ obj' = r.obj
              /\ log' = r.log
              /\ pc' = r.pc
              /\ pdal_runs' = pdal_runs \o r.ran
              /\ raised' = r.raised
    /\ calls' = Append(calls, "get_data")
    /\ UNCHANGED <<regions_txt, metadata_csv, request, meta_vars, year_vars>>

Next == Construct \/ GetData

Init == FetchInit

Spec == Init /\ [][Next]_vars

-----------------------------------------------------------------------------
(* Specification of get_name_and_year applied to a raw name *)

Alphabet == {"2", "0", "_", "A"}



RawNames ==
    UNION { [1..n -> Alphabet] : n \in 0..MaxNameLen }
        \cup {CO_Denver_2017, WA_King_County}

YearInit ==
    /\ location \in RawNames
    /\ year_pc = "input"
    /\ name_and_year = [region |-> <<>>, year |-> <<>>]
    /\ FetchIdle
    /\ MetaIdle

GetNameAndYear ==
    /\ year_pc = "input"
    /\ name_and_year' = get_name_and_year(location)
    /\ year_pc' = "returned"
    /\ UNCHANGED <<location, fetch_vars, meta_vars>>

YearNext == GetNameAndYear

SpecYear == YearInit /\ [][YearNext]_vars

-----------------------------------------------------------------------------
(* Specification of the catalog build, get_metadata.py run as a script *)

NameLists == UNION { [1..n -> CrawlNames] : n \in 0..MaxFiles }

MetaInit ==
    /\ filenames \in NameLists
    /\ meta_pc = "start"
    /\ http_requests = <<>>
    /\ http_status = <<>>
    /\ saved_csv = [saved |-> FALSE, rows |-> <<>>]
    /\ meta_log = <<>>
    /\ FetchIdle
    /\ YearIdle

SaveMetadata ==
    /\ meta_pc = "start"
    /\ \E resp \in [1..Len(filenames) -> Responses] :
          LET r == save_metadata(filenames, resp)
          IN  /\ http_requests' = r.requests
              /\ http_status' = [i \in 1..Len(filenames) |-> resp[i].status]
              /\ saved_csv' = r.csv
              /\ meta_log' = r.out
              /\ meta_pc' = IF r.raised = "" THEN "done" ELSE "raised"
    /\ UNCHANGED <<filenames, fetch_vars, year_vars>>

MetaNext == SaveMetadata

SpecCatalog == MetaInit /\ [][MetaNext]_vars

-----------------------------------------------------------------------------
(* Properties of the fetch flow (specification Spec) *)

Constructed == pc # "start"

PipelineBuilt ==
    /\ Constructed
    /\ HasAttr(obj, "pipeline")
    /\ obj.pipeline.t = "Pipeline"

BoundsSearched == Constructed /\ InList("get_region_from_bounds", calls)

\* the x and y ranges a readers.ept bounds text ([a, b], [c, d]) denotes:
\* the first list is the x range, the second the y range
PdalBounds(text) ==
    LET nums == SelectSeq(text, LAMBDA tok : tok.k = "num")
    IN  [minx |-> nums[1].n, maxx |-> nums[2].n,
         miny |-> nums[3].n, maxy |-> nums[4].n]

\* the bounding box of the request polygon in the archive CRS
RequestBBox ==
    LET ring == [i \in 1..Len(request.polygon) |->
                    << to_crs(request.polygon[i][1], request.epsg, EPSG_ARCHIVE),
                       to_crs(request.polygon[i][2], request.epsg, EPSG_ARCHIVE) >>]
        xs == {ring[i][1] : i \in 1..Len(ring)}
        ys == {ring[i][2] : i \in 1..Len(ring)}
    IN  [minx |-> CHOOSE v \in xs : \A w \in xs : v <= w,
         maxx |-> CHOOSE v \in xs : \A w \in xs : v >= w,
         miny |-> CHOOSE v \in ys : \A w \in ys : v <= w,
         maxy |-> CHOOSE v \in ys : \A w \in ys : v >= w]

\* catalog row R fully contains the bbox q
Contains(R, q) ==
    /\ R.xmin <= q.minx
    /\ R.xmax >= q.maxx
    /\ R.ymin <= q.miny
    /\ R.ymax >= q.maxy

\* index labels (0-based) of the catalog rows that contain the request bbox
Covering ==
    { j \in 0..(Len(metadata_csv) - 1) : Contains(metadata_csv[j + 1], RequestBBox) }

IndexLabels(series) == { series.v[i].idx : i \in 1..Len(series.v) }

\* C1: explicit-region resolution. With a name of the region-name list the
\* resolved region is that name and the locator is base + name + "/ept.json";
\* with a name not in the list resolution fails with RegionNotFound,
\* get_region_from_bounds is never invoked and no pipeline is built.
C1_ExplicitRegionResolution ==
    (Constructed /\ request.region # <<>> /\ HasAttr(obj, "region"))
        => IF InList(request.region, regions_txt)
           THEN /\ obj.region = PyStr(request.region)
                /\ HasAttr(obj, "file_location")
                /\ obj.file_location =
                       PyStr(DEFAULT_LOCATION \o request.region \o <<"/ept.json">>)
           ELSE /\ raised = "RegionNotFound"
                /\ ~InList("get_region_from_bounds", calls)
                /\ ~PipelineBuilt

\* C2: the bounds search returns exactly the catalog records that fully
\* contain the query bbox: every returned record contains it, every record
\* not returned fails containment on at least one edge.
C2_BoundsSearchExactCover ==
    BoundsSearched
        => /\ obj.region.t = "Series"
           /\ obj.file_location.t = "Series"
           /\ IndexLabels(obj.region) = Covering
           /\ IndexLabels(obj.file_location) = Covering
           /\ Len(obj.region.v) = Cardinality(Covering)
           /\ Len(obj.file_location.v) = Cardinality(Covering)
           /\ \A i \in 1..Len(obj.region.v) :
                 LET R == metadata_csv[obj.region.v[i].idx + 1]
                 IN  /\ R.xmin <= RequestBBox.minx /\ R.xmax >= RequestBBox.maxx
                     /\ R.ymin <= RequestBBox.miny /\ R.ymax >= RequestBBox.maxy
                     /\ obj.region.v[i].val = R.region
           /\ \A j \in 0..(Len(metadata_csv) - 1) :
                 j \notin IndexLabels(obj.region)
                     => LET R == metadata_csv[j + 1]
                        IN  \/ R.xmin > RequestBBox.minx \/ R.xmax < RequestBBox.maxx
                            \/ R.ymin > RequestBBox.miny \/ R.ymax < RequestBBox.maxy

\* a bounds search that returned one record and left another out
C2_Witness ==
    /\ BoundsSearched
    /\ Len(metadata_csv) = 2
    /\ Len(obj.region.v) = 1

StageTypes ==
    << "readers.ept", "filters.range", "filters.assign", "filters.reprojection",
       "filters.smrf", "filters.range", "writers.las", "writers.gdal" >>

\* C3: the pipeline description is always the 8 stages Read (readers.ept,
\* tag readdata), Noise-remove, Declassify, Reproject, Ground-classify,
\* Select-ground, Write-points, Rasterize in this order, and every inputs
\* reference names the tag of the immediately preceding stage.
C3_PipelineChain ==
    PipelineBuilt
        => LET st == obj.pipeline.stages
           IN  /\ Len(st) = 8
               /\ \A i \in 1..8 : st[i].type = StageTypes[i]
               /\ st[1].tag = "readdata"
               /\ st[2].limits = "Classification![7:7]"
               /\ st[3].assignment = "Classification[:]=0"
               /\ st[6].limits = "Classification[2:2]"
               /\ st[8].output_type = "idw"
               /\ \A i \in 1..8 :
                     "inputs" \in DOMAIN st[i]
                         => \A k \in 1..Len(st[i].inputs) :
                               /\ i > 1
                               /\ "tag" \in DOMAIN st[i - 1]
                               /\ st[i - 1].tag = st[i].inputs[k]
               /\ \A i, j \in 1..8 :
                     ("tag" \in DOMAIN st[i] /\ "tag" \in DOMAIN st[j]
                        /\ st[i].tag = st[j].tag) => i = j

\* a pipeline built in bounds-search mode whose stages carry inputs references
C3_Witness ==
    /\ PipelineBuilt
    /\ request.region = <<>>
    /\ \E i \in 1..Len(obj.pipeline.stages) :
          "inputs" \in DOMAIN obj.pipeline.stages[i]

\* C4: the bounds of stage "readdata" denote the x range [minx, maxx] and the
\* y range [miny, maxy] of the request polygon's bbox in the archive CRS (the
\* rectangle of extraction_bounds), and the Reproject stage's out_srs is the
\* requested CRS.
C4_ReadBoundsAreProjectedBBox ==
    PipelineBuilt
        => /\ PdalBounds(obj.pipeline.stages[1].bounds) = RequestBBox
           /\ PdalBounds(obj.pipeline.stages[1].bounds)
                  = PdalBounds(obj.extraction_bounds)
           /\ obj.pipeline.stages[4].out_srs = <<Lit("EPSG:"), Num(request.epsg)>>

Complete(o) ==
    /\ HasAttr(o, "region") /\ o.region.t # "None"
    /\ HasAttr(o, "boundary")
    /\ HasAttr(o, "pipeline") /\ o.pipeline.t # "None"

\* C5: no silent swallowing. Whenever construction completed normally for the
\* caller the region, boundary and pipeline of the object are set, and
\* get_data is never reached on an object where one of them is unset.
C5_NoSilentSwallowing ==
    /\ (pc = "constructed" /\ raised = "") => Complete(obj)
    /\ InList("get_data", calls) => Complete(obj)

\* C7: in bounds-search mode with no catalog record containing the request
\* bbox, resolution fails with NoRegionCovers surfaced to the caller, no
\* pipeline is built and none is executed.
C7_NoRegionCovers ==
    (BoundsSearched /\ Covering = {})
        => /\ raised = "NoRegionCovers"
           /\ ~PipelineBuilt
           /\ pdal_runs = <<>>

\* C8: in bounds-search mode with two or more covering records the resolver
\* selects exactly one region name, the one the pipeline is built from, and
\* the full set of covering candidates stays available.
C8_DeterministicTieBreak ==
    (BoundsSearched /\ Cardinality(Covering) >= 2)
        => /\ obj.region.t = "str"
           /\ \E j \in Covering : metadata_csv[j + 1].region = obj.region.v
           /\ PipelineBuilt =>
                 obj.pipeline.stages[1].filename
                     = DEFAULT_LOCATION \o obj.region.v \o <<"/ept.json">>

\* the access locators file_location holds
Locators(fl) ==
    IF fl.t = "str" THEN {fl.v} ELSE { fl.v[i].val : i \in 1..Len(fl.v) }

\* C10: whenever construction built a pipeline, the filename of its read stage
\* equals the resolved access locator stored in file_location.
C10_ReadFilenameIsLocator ==
    PipelineBuilt
        => /\ HasAttr(obj, "file_location")
           /\ Locators(obj.file_location) = {obj.pipeline.stages[1].filename}

-----------------------------------------------------------------------------
(* Properties of the catalog build (specification SpecCatalog) *)

\* number of fetches that returned a non-success status
Skipped == Cardinality({ i \in 1..Len(http_status) : http_status[i] # 200 })

\* number of failures the run reported
ReportedSkipped ==
    Cardinality({ i \in 1..Len(meta_log) : meta_log[i].msg = "Connection problem at" })

\* C6: every one of the N names is requested exactly once in list order, the
\* persisted catalog has N - M records and the run reports a skipped count of
\* M, where M fetches returned a non-success status.
C6_CatalogBuildCounts ==
    meta_pc = "done"
        => /\ http_requests =
                  [i \in 1..Len(filenames) |->
                      DEFAULT_URL \o filenames[i] \o <<"ept.json">>]
           /\ saved_csv.saved
           /\ Len(saved_csv.rows) = Len(filenames) - Skipped
           /\ ReportedSkipped = Skipped

-----------------------------------------------------------------------------
(* Properties of get_name_and_year (specification SpecYear) *)

\* s holds "20" followed by two digits somewhere
ContainsYearToken(s) ==
    \E i \in 1..(Len(s) - 3) :
        /\ SubSeq(s, i, i + 1) = <<"2", "0">>
        /\ IsDigit(s[i + 2])
        /\ IsDigit(s[i + 3])

\* s ends with "20" followed by two digits
EndsWithYearToken(s) ==
    /\ Len(s) >= 4
    /\ SubSeq(s, Len(s) - 3, Len(s) - 2) = <<"2", "0">>
    /\ IsDigit(s[Len(s) - 1])
    /\ IsDigit(s[Len(s)])

\* u is the suffix of s of length n
IsSuffix(u, s, n) ==
    /\ Len(u) = n
    /\ \A i \in 1..n : u[i] = s[Len(s) - n + i]

\* u is the prefix of s of length n
IsPrefix(u, s, n) ==
    /\ Len(u) = n
    /\ \A i \in 1..n : u[i] = s[i]

\* C9 as amended: the returned region is the name without its last five
\* characters; the returned year is the last four characters of the name when
\* the name holds "20" followed by two digits (the year token itself when the
\* name ends with it) and empty otherwise; "CO_Denver_2017" gives
\* ("CO_Denver", "2017") and "WA_King_County" gives ("WA_King_C", "").
C9_NameAndYear ==
    year_pc = "returned"
        => LET n == Len(location)
               r == name_and_year
           IN  /\ IsPrefix(r.region, location, IF n > 5 THEN n - 5 ELSE 0)
               /\ ContainsYearToken(location)
                     => IsSuffix(r.year, location, IF n > 4 THEN 4 ELSE n)
               /\ EndsWithYearToken(location)
                     => /\ r.year = SubSeq(location, n - 3, n)
                        /\ n >= 5 => r.region \o <<location[n - 4]>> \o r.year
                                         = location
               /\ ~ContainsYearToken(location) => r.year = <<>>
               /\ location = CO_Denver_2017
                     => r = [region |-> <<"C", "O", "_", "D", "e", "n", "v", "e", "r">>,
                             year |-> <<"2", "0", "1", "7">>]
               /\ location = WA_King_County
                     => r = [region |-> <<"W", "A", "_", "K", "i", "n", "g", "_", "C">>,
                             year |-> <<>>]

\* the year of a name that ends with its year token has been extracted
C9_Witness ==
    /\ year_pc = "returned"
    /\ location = CO_Denver_2017
    /\ name_and_year.year = <<"2", "0", "1", "7">>

\* C9: a name with a 20xx token at its end gives that token as the year and
\* the name without the year as the region; a name without a token gives an
\* empty year; "CO_Denver_2017" gives ("CO_Denver_", "2017") and
\* "WA_King_County" gives ("WA_King_Coun", "").
C9_YearTokenStripped ==
    year_pc = "returned"
        => LET n == Len(location)
               r == name_and_year
           IN  /\ EndsWithYearToken(location)
                     => /\ r.year = SubSeq(location, n - 3, n)
                        /\ r.region = SubSeq(location, 1, n - 4)
               /\ ~ContainsYearToken(location) => r.year = <<>>
               /\ location = CO_Denver_2017
                     => r = [region |-> <<"C", "O", "_", "D", "e", "n", "v", "e", "r", "_">>,
                             year |-> <<"2", "0", "1", "7">>]
               /\ location = WA_King_County
                     => r = [region |-> <<"W", "A", "_", "K", "i", "n", "g", "_",
                                          "C", "o", "u", "n">>,
                             year |-> <<>>]

====
